---- MODULE Spec2Model ----
(***************************************************************************)
(* Model of the experiment-event pipeline of the worker:                   *)
(*   - runExperimentWithDirectAPI and its four REST helpers                *)
(*     (direct-api.ts, listed in docs/WHY_EVAL_DOESNT_WORK.md 838-1071);   *)
(*   - the containment scorer (direct-api.ts and src/index.ts).            *)
(* Strings whose content matters (outputs, expected values) are sequences  *)
(* of one-character strings; opaque strings are TLA+ strings.              *)
(* One action is one synchronous stretch of JavaScript: from the           *)
(* resumption of an await to the next suspension.                          *)
(***************************************************************************)
EXTENDS Integers, Sequences, FiniteSets, TLC

\* ------------------------------------------------------------------ bounds
MaxNow == 1           \* Date.now() ranges over 0..MaxNow
MaxStrLen == 2        \* length of the strings fed to the scorer on its own

\* the concurrent invocations of runExperimentWithDirectAPI
Runs == {"r1", "r2"}
\* the characters of the strings fed to the scorer on its own
ScorerAlphabet == {"a", "A", "b"}

\* --------------------------------------------------------------- strings
UpperCase == <<"A","B","C","D","E","F","G","H","I","J","K","L","M",
               "N","O","P","Q","R","S","T","U","V","W","X","Y","Z">>
LowerCase == <<"a","b","c","d","e","f","g","h","i","j","k","l","m",
               "n","o","p","q","r","s","t","u","v","w","x","y","z">>

toLowerChar(c) ==
    IF \E k \in 1..Len(UpperCase) : UpperCase[k] = c
    THEN LowerCase[CHOOSE k \in 1..Len(UpperCase) : UpperCase[k] = c]
    ELSE c

\* String.prototype.toLowerCase
toLowerCase(s) == [k \in 1..Len(s) |-> toLowerChar(s[k])]

\* String.prototype.includes
includes(s, t) ==
    \E k \in 0..(Len(s) - Len(t)) : SubSeq(s, k + 1, k + Len(t)) = t

\* message.content of a completion: a string or null
NullContent == [kind |-> "null"]
Str(s) == [kind |-> "str", val |-> s]

\* a null content turned into text by string concatenation
OrNullText(c) == IF c.kind = "null" THEN <<"n","u","l","l">> ELSE c.val

\* response.choices[0].message.content || ''
OrEmpty(c) == IF c.kind = "null" THEN <<>> ELSE c.val

\* the score as a scorer that forgets to lower-case would compute it
ScoreCaseSensitive(output, expected) ==
    IF includes(output, expected) THEN 1 ELSE 0

\* the score with the branches of the conditional swapped
ScoreInverted(output, expected) ==
    IF includes(toLowerCase(output), toLowerCase(expected)) THEN 0 ELSE 1

\* outputLower.includes(expectedLower) ? 1 : 0, in the loop body of
\* runExperimentWithDirectAPI
score(output, expected) ==
    IF includes(toLowerCase(output), toLowerCase(expected)) THEN 1 ELSE 0

\* ------------------------------------------------------------- constants
BRAINTRUST_API_URL == "https://api.braintrust.dev"
ProjectName == "cloudflare-worker-direct-api"
Env == [BRAINTRUST_API_KEY |-> "bt-key", OPENAI_API_KEY |-> "oa-key"]
Bearer(key) == <<"Bearer ", key>>

dataset == <<
    [input |-> "What is 2+2?", expected |-> <<"4">>],
    [input |-> "What is the capital of France?",
     expected |-> <<"P","a","r","i","s">>],
    [input |-> "What color is the sky?", expected |-> <<"b","l","u","e">>] >>

\* what the completion endpoint may answer for row k
CompletionChoices(k) ==
    CASE k = 1 -> { Str(<<"4">>), NullContent }
      [] k = 2 -> { Str(<<"P","a","r","i","s">>), Str(<<"R","o","m","e">>) }
      [] OTHER -> { Str(<<"b","l","u","e">>), Str(<<>>) }

Undefined == [undef |-> TRUE]

\* the invocations of the worker's handlers (fetch, scheduled)
Calls == {"q1", "q2"}
\* an invocation that has not happened yet
NoCall ==
    [kind |-> "none", path |-> "", env |-> Undefined, pc |-> "idle",
     handler |-> "none", out |-> <<>>, wait |-> <<>>, response |-> Undefined,
     promise |-> "none", thrown |-> Undefined, result |-> Undefined,
     weather |-> <<>>, search |-> <<>>,
     weatherMessage |-> Undefined, searchMessage |-> Undefined, settled |-> 0]

\* the invocations of the task callback that Eval makes
Tasks == {"t1", "t2"}
\* an invocation that has not happened yet
NoTask ==
    [pc |-> "idle", input |-> "", request |-> Undefined, response |-> Undefined,
     bodyRead |-> FALSE, output |-> Undefined, error |-> Undefined]

\* the two Logging-SDK flows: the one of logging-sdk-optimizer.test.ts and
\* runExperiment of the documentation
Flows == {"test", "doc"}
\* a flow that has not started yet
NoFlow ==
    [pc |-> "idle", pending |-> {}, trace |-> <<>>, logged |-> <<>>,
     results |-> <<>>, summary |-> Undefined, error |-> Undefined]

VARIABLES
    pc,            \* per run: where the async function is suspended
    project,       \* per run: local `project`
    experiment,    \* per run: local `experiment`
    idx,           \* per run: 1-based position of the for-of loop
    events,        \* per run: local `events`
    results,       \* per run: local `results`
    insertResult,  \* per run: local `insertResult`
    summary,       \* per run: local `summary`
    err,           \* per run: message of the error the promise rejected with
    log,           \* per run: requests issued and responses received, in order
    now,           \* the clock read by Date.now()
    srvProjects,   \* tracking service: project names, id = position
    srvExperiments,\* tracking service: experiments created, id = position
    sOutput, sExpected, sScore, sPc,  \* the scorer applied on its own
    calls,         \* per invocation of a handler of the worker: its state
    task,          \* per invocation of the task callback of runEval: its state
    sdk            \* per Logging-SDK flow: its state

runVars == <<pc, project, experiment, idx, events, results, insertResult,
             summary, err, log>>
srvVars == <<srvProjects, srvExperiments>>
scorerVars == <<sOutput, sExpected, sScore, sPc>>
vars == <<runVars, now, srvVars, scorerVars, calls, task, sdk>>

\* ------------------------------------------------------ requests, replies
StatusTexts == {"Unauthorized", "Internal Server Error"}

Req(op, path, key, body) ==
    [t |-> "req", op |-> op, path |-> path, auth |-> Bearer(key), body |-> body]
Resp(op, ok, body) == [t |-> "resp", op |-> op, ok |-> ok, body |-> body]

\* fetch(`${BRAINTRUST_API_URL}/v1/project`, ...) of getOrCreateProject
ProjectRequest(apiKey, projectName) ==
    Req("project", <<BRAINTRUST_API_URL, "/v1/project">>, apiKey,
        [name |-> projectName])

\* createExperiment with a hard-coded project id
ExperimentRequestFixedProject(apiKey, projectId, experimentName) ==
    Req("experiment", <<BRAINTRUST_API_URL, "/v1/experiment">>, apiKey,
        [project_id |-> 1, name |-> experimentName])

\* fetch(`${BRAINTRUST_API_URL}/v1/experiment`, ...) of createExperiment
ExperimentRequest(apiKey, projectId, experimentName) ==
    Req("experiment", <<BRAINTRUST_API_URL, "/v1/experiment">>, apiKey,
        [project_id |-> projectId, name |-> experimentName])

\* insertExperimentEvents fed from an experiment kept in module scope, which
\* every run overwrites: the id is that of the experiment created last
InsertRequestShared(apiKey, experimentId, evs) ==
    Req("insert",
        <<BRAINTRUST_API_URL, "/v1/experiment/", Len(srvExperiments), "/insert">>,
        apiKey, [events |-> evs])

\* fetch(`.../v1/experiment/${experimentId}/insert`, ...) of insertExperimentEvents
InsertRequest(apiKey, experimentId, evs) ==
    Req("insert", <<BRAINTRUST_API_URL, "/v1/experiment/", experimentId, "/insert">>,
        apiKey, [events |-> evs])

\* summarizeExperiment called with the key of the completion provider
SummarizeRequestOpenAIKey(apiKey, experimentId) ==
    Req("summarize",
        <<BRAINTRUST_API_URL, "/v1/experiment/", experimentId, "/summarize">>,
        Env.OPENAI_API_KEY, Undefined)

\* fetch(`.../v1/experiment/${experimentId}/summarize`, ...) of summarizeExperiment
SummarizeRequest(apiKey, experimentId) ==
    Req("summarize",
        <<BRAINTRUST_API_URL, "/v1/experiment/", experimentId, "/summarize">>,
        apiKey, Undefined)

\* client.chat.completions.create({...}) for one dataset row
CompletionRequest(apiKey, k) ==
    Req("completion", <<"openai", "/v1/chat/completions">>, apiKey,
        [model |-> "gpt-4o-mini", user |-> dataset[k].input, temperature |-> 0,
         row |-> k])

\* an experiment name without the clock reading
ExperimentNameFixed(t) == <<"direct-api-", 0>>

\* `direct-api-${Date.now()}`
ExperimentName(t) == <<"direct-api-", t>>

\* an event that also records when it was built
EventTimestamped(row, output, sc, response) ==
    [input |-> row.input, output |-> output, expected |-> row.expected,
     scores |-> [contains_expected |-> sc],
     metadata |-> [model |-> response.model, usage |-> response.usage,
                   created |-> now]]

\* the object pushed on `events` in the loop body
Event(row, output, sc, response) ==
    [input |-> row.input, output |-> output, expected |-> row.expected,
     scores |-> [contains_expected |-> sc],
     metadata |-> [model |-> response.model, usage |-> response.usage]]

\* a result that reports every row as passed
ResultAlwaysPassed(row, output, sc) ==
    [input |-> row.input, output |-> output, expected |-> row.expected,
     score |-> 1]

\* the object pushed on `results` in the loop body
Result(row, output, sc) ==
    [input |-> row.input, output |-> output, expected |-> row.expected,
     score |-> sc]

\* a project of another user that the service may already hold
ForeignProject == "someone-elses-project"

\* ----------------------------------------------------- tracking service
\* POST /v1/project: the record under that name, created when absent
SrvProjectsAfter(name) ==
    IF \E k \in 1..Len(srvProjects) : srvProjects[k] = name
    THEN srvProjects ELSE Append(srvProjects, name)
SrvProject(name) ==
    [id |-> CHOOSE k \in 1..Len(SrvProjectsAfter(name)) :
                SrvProjectsAfter(name)[k] = name,
     name |-> name]

\* POST /v1/experiment: a new record with a fresh id
SrvExperiment(body) ==
    [id |-> Len(srvExperiments) + 1, project_id |-> body.project_id,
     name |-> body.name]

\* ------------------------------------------------------------------ Init
Init ==
    /\ pc = [r \in Runs |-> "idle"]
    /\ project = [r \in Runs |-> Undefined]
    /\ experiment = [r \in Runs |-> Undefined]
    /\ idx = [r \in Runs |-> 0]
    /\ events = [r \in Runs |-> <<>>]
    /\ results = [r \in Runs |-> <<>>]
    /\ insertResult = [r \in Runs |-> Undefined]
    /\ summary = [r \in Runs |-> Undefined]
    /\ err = [r \in Runs |-> Undefined]
    /\ log = [r \in Runs |-> <<>>]
    /\ now = 0
    /\ srvProjects \in {<<>>, <<ForeignProject>>}
    /\ srvExperiments = <<>>
    /\ sOutput = NullContent /\ sExpected = <<>> /\ sScore = 0 /\ sPc = "off"
    /\ calls = [q \in Calls |-> NoCall]
    /\ task = [t \in Tasks |-> NoTask]
    /\ sdk = [f \in Flows |-> NoFlow]

Reject(r, message, entry) ==
    /\ pc' = [pc EXCEPT ![r] = "rejected"]
    /\ err' = [err EXCEPT ![r] = [message |-> message]]
    /\ log' = [log EXCEPT ![r] = Append(@, entry)]

\* ------------------------------------------------- runExperimentWithDirectAPI
\* a call that resolves the project under a name of its own
StartOwnName(r) ==
    /\ pc[r] = "idle"
    /\ pc' = [pc EXCEPT ![r] = "await_project"]
    /\ log' = [log EXCEPT ![r] =
                 Append(@, ProjectRequest(Env.BRAINTRUST_API_KEY,
                                          IF r = "r1" THEN ProjectName
                                          ELSE "cloudflare-worker-direct-api-2"))]
    /\ UNCHANGED <<project, experiment, idx, events, results, insertResult,
                   summary, err, now, srvVars, scorerVars, calls, task, sdk>>

\* the call: runs up to the fetch of getOrCreateProject and suspends
Start(r) ==
    /\ pc[r] = "idle"
    /\ pc' = [pc EXCEPT ![r] = "await_project"]
    /\ log' = [log EXCEPT ![r] =
                 Append(@, ProjectRequest(Env.BRAINTRUST_API_KEY, ProjectName))]
    /\ UNCHANGED <<project, experiment, idx, events, results, insertResult,
                   summary, err, now, srvVars, scorerVars, calls, task, sdk>>

\* getOrCreateProject resumes with an ok response; createExperiment is called
ProjectOk(r) ==
    /\ pc[r] = "await_project"
    /\ \E t \in now..MaxNow :
        LET name == log[r][Len(log[r])].body.name
            p == SrvProject(name)
        IN
        /\ srvProjects' = SrvProjectsAfter(name)
        /\ project' = [project EXCEPT ![r] = p]
        /\ now' = t
        /\ log' = [log EXCEPT ![r] = @ \o
                     << Resp("project", TRUE, p),
                        ExperimentRequest(Env.BRAINTRUST_API_KEY, p.id,
                                          ExperimentName(t)) >>]
    /\ pc' = [pc EXCEPT ![r] = "await_experiment"]
    /\ UNCHANGED <<experiment, idx, events, results, insertResult, summary,
                   err, srvExperiments, scorerVars, calls, task, sdk>>

\* getOrCreateProject: !response.ok
ProjectFail(r) ==
    /\ pc[r] = "await_project"
    /\ \E st \in StatusTexts :
        Reject(r, <<"Failed to create project: ", st>>,
               Resp("project", FALSE, st))
    /\ UNCHANGED <<project, experiment, idx, events, results, insertResult,
                   summary, now, srvVars, scorerVars, calls, task, sdk>>

\* a pipeline that starts the completions of all rows at once
ExperimentOkFanOut(r) ==
    /\ pc[r] = "await_experiment"
    /\ LET e == SrvExperiment(log[r][Len(log[r])].body) IN
        /\ srvExperiments' = Append(srvExperiments, e)
        /\ experiment' = [experiment EXCEPT ![r] = e]
        /\ log' = [log EXCEPT ![r] = @ \o << Resp("experiment", TRUE, e) >> \o
                     [k \in 1..Len(dataset) |->
                        CompletionRequest(Env.OPENAI_API_KEY, k)]]
    /\ idx' = [idx EXCEPT ![r] = 1]
    /\ pc' = [pc EXCEPT ![r] = "await_completion"]
    /\ UNCHANGED <<project, events, results, insertResult, summary, err, now,
                   srvProjects, scorerVars, calls, task, sdk>>

\* createExperiment resumes with an ok response; the loop starts with row 1
ExperimentOk(r) ==
    /\ pc[r] = "await_experiment"
    /\ LET e == SrvExperiment(log[r][Len(log[r])].body) IN
        /\ srvExperiments' = Append(srvExperiments, e)
        /\ experiment' = [experiment EXCEPT ![r] = e]
        /\ log' = [log EXCEPT ![r] = @ \o
                     << Resp("experiment", TRUE, e),
                        CompletionRequest(Env.OPENAI_API_KEY, 1) >>]
    /\ idx' = [idx EXCEPT ![r] = 1]
    /\ pc' = [pc EXCEPT ![r] = "await_completion"]
    /\ UNCHANGED <<project, events, results, insertResult, summary, err, now,
                   srvProjects, scorerVars, calls, task, sdk>>

\* createExperiment that asks again after a non-ok response
ExperimentFailRetry(r) ==
    /\ pc[r] = "await_experiment"
    /\ Len(log[r]) < 8
    /\ \E st \in StatusTexts :
        log' = [log EXCEPT ![r] = @ \o
                  << Resp("experiment", FALSE, st), log[r][Len(log[r])] >>]
    /\ UNCHANGED <<pc, project, experiment, idx, events, results, insertResult,
                   summary, err, now, srvVars, scorerVars, calls, task, sdk>>

\* createExperiment: !response.ok
ExperimentFail(r) ==
    /\ pc[r] = "await_experiment"
    /\ \E st \in StatusTexts :
        Reject(r, <<"Failed to create experiment: ", st>>,
               Resp("experiment", FALSE, st))
    /\ UNCHANGED <<project, experiment, idx, events, results, insertResult,
                   summary, now, srvVars, scorerVars, calls, task, sdk>>

\* one resumption of the loop body with completion content c: lines
\* 1026-1047, then the request of row `next`, or of the insert when next = 0
LoopStep(r, c, next) ==
    LET k == idx[r]
        row == dataset[k]
        response == [model |-> "gpt-4o-mini", usage |-> "usage", content |-> c]
        output == OrEmpty(response.content)
        sc == score(output, row.expected)
        evs == Append(events[r], Event(row, output, sc, response))
    IN
    /\ events' = [events EXCEPT ![r] = evs]
    /\ results' = [results EXCEPT ![r] = Append(@, Result(row, output, sc))]
    /\ IF next # 0
       THEN /\ idx' = [idx EXCEPT ![r] = next]
            /\ log' = [log EXCEPT ![r] = @ \o
                         << Resp("completion", TRUE, c),
                            CompletionRequest(Env.OPENAI_API_KEY, next) >>]
            /\ pc' = pc
       ELSE /\ idx' = idx
            /\ log' = [log EXCEPT ![r] = @ \o
                         << Resp("completion", TRUE, c),
                            InsertRequest(Env.BRAINTRUST_API_KEY,
                                          experiment[r].id, evs) >>]
            /\ pc' = [pc EXCEPT ![r] = "await_insert"]
    /\ UNCHANGED <<project, experiment, insertResult, summary, err, now,
                   srvVars, scorerVars, calls, task, sdk>>

\* a loop that does not advance: the same row is requested again
CompletionOkSameRow(r) ==
    /\ pc[r] = "await_completion"
    /\ Len(log[r]) < 12
    /\ \E c \in CompletionChoices(idx[r]) : LoopStep(r, c, idx[r])

\* a loop that stops one row early
CompletionOkEarlyExit(r) ==
    /\ pc[r] = "await_completion"
    /\ \E c \in CompletionChoices(idx[r]) :
        LoopStep(r, c, IF idx[r] < Len(dataset) - 1 THEN idx[r] + 1 ELSE 0)

\* a loop that gives up on the first row that scores 0
CompletionOkStopsOnZero(r) ==
    /\ pc[r] = "await_completion"
    /\ \E c \in CompletionChoices(idx[r]) :
        IF score(OrEmpty(c), dataset[idx[r]].expected) = 0
        THEN /\ Reject(r, <<"row failed: ", "score 0">>,
                       Resp("completion", TRUE, c))
             /\ UNCHANGED <<project, experiment, idx, events, results,
                            insertResult, summary, now, srvVars, scorerVars, calls, task, sdk>>
        ELSE LoopStep(r, c, IF idx[r] < Len(dataset) THEN idx[r] + 1 ELSE 0)

\* the completion of row idx resolves: the rest of the loop body runs, then
\* either the next iteration's completion or insertExperimentEvents is called
CompletionOk(r) ==
    /\ pc[r] = "await_completion"
    /\ \E c \in CompletionChoices(idx[r]) :
        LoopStep(r, c, IF idx[r] < Len(dataset) THEN idx[r] + 1 ELSE 0)

\* a loop body that catches the rejection and goes on with the next row
CompletionFailSkip(r) ==
    /\ pc[r] = "await_completion"
    /\ \E st \in StatusTexts :
        IF idx[r] < Len(dataset)
        THEN /\ idx' = [idx EXCEPT ![r] = idx[r] + 1]
             /\ log' = [log EXCEPT ![r] = @ \o
                          << Resp("completion", FALSE, st),
                             CompletionRequest(Env.OPENAI_API_KEY, idx[r] + 1) >>]
             /\ pc' = pc
        ELSE /\ idx' = idx
             /\ log' = [log EXCEPT ![r] = @ \o
                          << Resp("completion", FALSE, st),
                             InsertRequest(Env.BRAINTRUST_API_KEY,
                                           experiment[r].id, events[r]) >>]
             /\ pc' = [pc EXCEPT ![r] = "await_insert"]
    /\ UNCHANGED <<project, experiment, events, results, insertResult, summary,
                   err, now, srvVars, scorerVars, calls, task, sdk>>

\* client.chat.completions.create rejects: nothing in the loop catches it
CompletionFail(r) ==
    /\ pc[r] = "await_completion"
    /\ \E st \in StatusTexts :
        Reject(r, <<"openai: ", st>>, Resp("completion", FALSE, st))
    /\ UNCHANGED <<project, experiment, idx, events, results, insertResult,
                   summary, now, srvVars, scorerVars, calls, task, sdk>>

\* insertExperimentEvents resumes with an ok response; summarizeExperiment is called
InsertOk(r) ==
    /\ pc[r] = "await_insert"
    /\ LET ids == [k \in 1..Len(log[r][Len(log[r])].body.events) |->
                     <<"row", experiment[r].id, k>>]
       IN
        /\ insertResult' = [insertResult EXCEPT ![r] = [row_ids |-> ids]]
        /\ log' = [log EXCEPT ![r] = @ \o
                     << Resp("insert", TRUE, [row_ids |-> ids]),
                        SummarizeRequest(Env.BRAINTRUST_API_KEY,
                                         experiment[r].id) >>]
    /\ pc' = [pc EXCEPT ![r] = "await_summarize"]
    /\ UNCHANGED <<project, experiment, idx, events, results, summary, err,
                   now, srvVars, scorerVars, calls, task, sdk>>

\* insertExperimentEvents without its `if (!response.ok) throw`
InsertFailIgnored(r) ==
    /\ pc[r] = "await_insert"
    /\ \E st \in StatusTexts :
        log' = [log EXCEPT ![r] = @ \o
                  << Resp("insert", FALSE, st),
                     SummarizeRequest(Env.BRAINTRUST_API_KEY,
                                      experiment[r].id) >>]
    /\ pc' = [pc EXCEPT ![r] = "await_summarize"]
    /\ UNCHANGED <<project, experiment, idx, events, results, insertResult,
                   summary, err, now, srvVars, scorerVars, calls, task, sdk>>

\* insertExperimentEvents that submits the batch again after a non-ok response
InsertFailRetry(r) ==
    /\ pc[r] = "await_insert"
    /\ Len(log[r]) < 16
    /\ \E st \in StatusTexts :
        log' = [log EXCEPT ![r] = @ \o
                  << Resp("insert", FALSE, st),
                     InsertRequest(Env.BRAINTRUST_API_KEY, experiment[r].id,
                                   events[r]) >>]
    /\ UNCHANGED <<pc, project, experiment, idx, events, results, insertResult,
                   summary, err, now, srvVars, scorerVars, calls, task, sdk>>

\* insertExperimentEvents: !response.ok
InsertFail(r) ==
    /\ pc[r] = "await_insert"
    /\ \E st \in StatusTexts :
        Reject(r, <<"Failed to insert events: ", st>>,
               Resp("insert", FALSE, st))
    /\ UNCHANGED <<project, experiment, idx, events, results, insertResult,
                   summary, now, srvVars, scorerVars, calls, task, sdk>>

\* summarizeExperiment resumes with an ok response; the function returns
SummarizeOk(r) ==
    /\ pc[r] = "await_summarize"
    /\ LET sm == [summary_of |-> experiment[r].id] IN
        /\ summary' = [summary EXCEPT ![r] = sm]
        /\ log' = [log EXCEPT ![r] = Append(@, Resp("summarize", TRUE, sm))]
    /\ pc' = [pc EXCEPT ![r] = "resolved"]
    /\ UNCHANGED <<project, experiment, idx, events, results, insertResult,
                   err, now, srvVars, scorerVars, calls, task, sdk>>

\* summarizeExperiment throwing the message of insertExperimentEvents
SummarizeFailAsInsert(r) ==
    /\ pc[r] = "await_summarize"
    /\ \E st \in StatusTexts :
        Reject(r, <<"Failed to insert events: ", st>>,
               Resp("summarize", FALSE, st))
    /\ UNCHANGED <<project, experiment, idx, events, results, insertResult,
                   summary, now, srvVars, scorerVars, calls, task, sdk>>

\* summarizeExperiment: !response.ok
SummarizeFail(r) ==
    /\ pc[r] = "await_summarize"
    /\ \E st \in StatusTexts :
        Reject(r, <<"Failed to summarize experiment: ", st>>,
               Resp("summarize", FALSE, st))
    /\ UNCHANGED <<project, experiment, idx, events, results, insertResult,
                   summary, now, srvVars, scorerVars, calls, task, sdk>>

\* the value the promise of runExperimentWithDirectAPI resolves with
ReturnValue(r) ==
    [project |-> project[r], experiment |-> experiment[r],
     results |-> results[r], insertResult |-> insertResult[r],
     summary |-> summary[r],
     experimentUrl |-> <<"https://www.braintrust.dev/app/", project[r].name,
                         "/experiments/", experiment[r].id>>]

Next ==
    \E r \in Runs :
        \/ Start(r)
        \/ ProjectOk(r)
        \/ ProjectFail(r)
        \/ ExperimentOk(r)
        \/ ExperimentFail(r)
        \/ CompletionOk(r)
        \/ CompletionFail(r)
        \/ InsertOk(r)
        \/ InsertFail(r)
        \/ SummarizeOk(r)
        \/ SummarizeFail(r)

Spec == Init /\ [][Next]_vars

\* ------------------------------------------------ the scorer on its own
\* the strings of at most MaxStrLen characters of ScorerAlphabet
ScorerStrings ==
    UNION { [1..n -> ScorerAlphabet] : n \in 0..MaxStrLen }

\* the scorer of runEval:
\*   outputLower = output?.toLowerCase() || ""
\*   expectedLower = expected?.expected?.toLowerCase() || ""
\*   score: outputLower.includes(expectedLower) ? 1 : 0
evalScore(output, expected) ==
    LET outputLower == IF output.kind = "null" THEN <<>>
                       ELSE toLowerCase(output.val)
        expectedLower == IF expected.kind = "null" THEN <<>>
                         ELSE toLowerCase(expected.val)
    IN IF includes(outputLower, expectedLower) THEN 1 ELSE 0

InitScorer ==
    /\ pc = [r \in Runs |-> "idle"]
    /\ project = [r \in Runs |-> Undefined]
    /\ experiment = [r \in Runs |-> Undefined]
    /\ idx = [r \in Runs |-> 0]
    /\ events = [r \in Runs |-> <<>>]
    /\ results = [r \in Runs |-> <<>>]
    /\ insertResult = [r \in Runs |-> Undefined]
    /\ summary = [r \in Runs |-> Undefined]
    /\ err = [r \in Runs |-> Undefined]
    /\ log = [r \in Runs |-> <<>>]
    /\ now = 0
    /\ srvProjects = <<>>
    /\ srvExperiments = <<>>
    /\ sOutput \in {NullContent} \cup { Str(s) : s \in ScorerStrings }
    /\ sExpected \in ScorerStrings
    /\ sScore = 0
    /\ sPc = "ready"
    /\ calls = [q \in Calls |-> NoCall]
    /\ task = [t \in Tasks |-> NoTask]
    /\ sdk = [f \in Flows |-> NoFlow]

\* lines 1026-1031 of direct-api.ts applied to one completion content
ApplyScore ==
    /\ sPc = "ready"
    /\ sScore' = score(OrEmpty(sOutput), sExpected)
    /\ sPc' = "direct"
    /\ UNCHANGED <<runVars, now, srvVars, sOutput, sExpected, calls, task, sdk>>

\* the scores callback of runEval applied to one task output
ApplyEvalScore ==
    /\ sPc = "ready"
    /\ sScore' = evalScore(sOutput, Str(sExpected))
    /\ sPc' = "eval"
    /\ UNCHANGED <<runVars, now, srvVars, sOutput, sExpected, calls, task, sdk>>

NextScorer == ApplyScore \/ ApplyEvalScore

SpecScorer == InitScorer /\ [][NextScorer]_vars

\* ------------------------------------------- customScorer on its own
\* logging-sdk-optimizer.test.ts: the word-overlap scorer
MaxWordsLen == 3
WordsAlphabet == {"a", "B", " "}
WordsStrings == UNION { [1..n -> WordsAlphabet] : n \in 0..MaxWordsLen }

RECURSIVE splitFrom(_, _, _, _, _)
splitFrom(str, i, words, cur, inSeparator) ==
    IF i > Len(str) THEN Append(words, cur)
    ELSE IF str[i] = " "
         THEN IF inSeparator
              THEN splitFrom(str, i + 1, words, cur, TRUE)
              ELSE splitFrom(str, i + 1, Append(words, cur), <<>>, TRUE)
         ELSE splitFrom(str, i + 1, words, Append(cur, str[i]), FALSE)

\* a split that keeps no empty words
splitNonEmpty(str) ==
    SelectSeq(splitFrom(str, 1, <<>>, <<>>, FALSE), LAMBDA w : w # <<>>)

\* String.prototype.split(/\s+/): the pieces between the runs of whitespace,
\* the empty pieces at either end included; "" gives one empty piece
split(str) == splitFrom(str, 1, <<>>, <<>>, FALSE)

\* Array.prototype.includes
arrayIncludes(arr, x) == \E i \in 1..Len(arr) : arr[i] = x

\* a / b on numbers: 0 / 0 is NaN
Divide(a, b) == IF b = 0 THEN [nan |-> TRUE] ELSE [num |-> a, den |-> b]

customScorer(output, expected) ==
    LET outputWords == split(toLowerCase(output))
        expectedWords == split(toLowerCase(expected))
        matches == SelectSeq(expectedWords,
                             LAMBDA word : arrayIncludes(outputWords, word))
    IN Divide(Len(matches), Len(expectedWords))

InitCustomScorer ==
    /\ pc = [r \in Runs |-> "idle"]
    /\ project = [r \in Runs |-> Undefined]
    /\ experiment = [r \in Runs |-> Undefined]
    /\ idx = [r \in Runs |-> 0]
    /\ events = [r \in Runs |-> <<>>]
    /\ results = [r \in Runs |-> <<>>]
    /\ insertResult = [r \in Runs |-> Undefined]
    /\ summary = [r \in Runs |-> Undefined]
    /\ err = [r \in Runs |-> Undefined]
    /\ log = [r \in Runs |-> <<>>]
    /\ now = 0
    /\ srvProjects = <<>>
    /\ srvExperiments = <<>>
    /\ sOutput \in WordsStrings
    /\ sExpected \in WordsStrings
    /\ sScore = Divide(0, 1)
    /\ sPc = "ready"
    /\ calls = [q \in Calls |-> NoCall]
    /\ task = [t \in Tasks |-> NoTask]
    /\ sdk = [f \in Flows |-> NoFlow]

\* const score = customScorer(output, expected)
ApplyCustomScorer ==
    /\ sPc = "ready"
    /\ sScore' = customScorer(sOutput, sExpected)
    /\ sPc' = "custom"
    /\ UNCHANGED <<runVars, now, srvVars, sOutput, sExpected, calls, task, sdk>>

NextCustomScorer == ApplyCustomScorer

SpecCustomScorer == InitCustomScorer /\ [][NextCustomScorer]_vars

\* ------------------------------------------------------- reading the log
IsReq(e, op) == e.t = "req" /\ e.op = op
IsResp(e, op) == e.t = "resp" /\ e.op = op
IsOkResp(e, op) == IsResp(e, op) /\ e.ok
IsFailResp(e, op) == IsResp(e, op) /\ ~e.ok

\* the positions of log[r] holding a request of kind op
ReqPos(r, op) == { j \in 1..Len(log[r]) : IsReq(log[r][j], op) }
FailPos(r, op) == { j \in 1..Len(log[r]) : IsFailResp(log[r][j], op) }
OkPos(r, op) == { j \in 1..Len(log[r]) : IsOkResp(log[r][j], op) }

TrackingOps == {"project", "experiment", "insert", "summarize"}

\* the place of a request in the order of the pipeline
StageOf(e) ==
    CASE e.op = "project" -> 1
      [] e.op = "experiment" -> 2
      [] e.op = "completion" -> 2 + e.body.row
      [] e.op = "insert" -> 3 + Len(dataset)
      [] OTHER -> 4 + Len(dataset)

Finished(r) == pc[r] \in {"resolved", "rejected"}

\* ---------------------------------------------------------------- claims

\* C1: in every run the summarize request is issued only after the insert
\* request of the same run got a success response, and a run whose insert
\* response is non-success never issues the summarize request.
C1_SummarizeAfterInsertOk ==
    \A r \in Runs :
        /\ \A j \in ReqPos(r, "summarize") :
              \E i \in OkPos(r, "insert") :
                  /\ i < j
                  /\ \E h \in ReqPos(r, "insert") : h < i
        /\ FailPos(r, "insert") # {} => ReqPos(r, "summarize") = {}

C1_Witness ==
    \E r1, r2 \in Runs :
        /\ ReqPos(r1, "summarize") # {}
        /\ FailPos(r2, "insert") # {}

\* C2: the requests of a run go through the stages in order: project,
\* experiment, the rows' completions in dataset order, insert, summarize.
\* Every request but the first directly follows the success response to the
\* request of the stage before it, and no request of an earlier or the same
\* stage is issued after a later one.
C2_StagesOnlyForward ==
    \A r \in Runs :
        \A j \in 1..Len(log[r]) :
            log[r][j].t = "req" =>
                /\ \A i \in 1..(j - 1) :
                      log[r][i].t = "req" => StageOf(log[r][i]) < StageOf(log[r][j])
                /\ IF j = 1 THEN StageOf(log[r][j]) = 1
                   ELSE /\ j >= 3
                        /\ log[r][j - 1].t = "resp" /\ log[r][j - 1].ok
                        /\ log[r][j - 1].op = log[r][j - 2].op
                        /\ log[r][j - 2].t = "req"
                        /\ StageOf(log[r][j - 2]) + 1 = StageOf(log[r][j])

C2_Witness ==
    \E r \in Runs :
        /\ pc[r] = "resolved"
        /\ Len(log[r]) = 2 * (4 + Len(dataset))

\* C3: a run issues the insert-events request at most once.
C3_InsertAtMostOnce ==
    \A r \in Runs : Cardinality(ReqPos(r, "insert")) <= 1

C3_Witness ==
    \E r \in Runs : Finished(r) /\ Cardinality(ReqPos(r, "insert")) = 1

\* C4: a run issues each tracking-service request at most once; a
\* non-success response is the last thing that happens in the run: the run
\* is rejected with an error and issues no further request, and what the
\* service had created for it is still there.
C4_NoRetryNoCompensation ==
    \A r \in Runs :
        /\ \A op \in TrackingOps : Cardinality(ReqPos(r, op)) <= 1
        /\ \A j \in 1..Len(log[r]) :
              (log[r][j].t = "resp" /\ ~log[r][j].ok) =>
                  /\ j = Len(log[r])
                  /\ pc[r] = "rejected"
                  /\ err[r] # Undefined
        /\ \A j \in OkPos(r, "experiment") :
              /\ log[r][j].body.id \in 1..Len(srvExperiments)
              /\ srvExperiments[log[r][j].body.id] = log[r][j].body
        /\ \A j \in OkPos(r, "project") :
              /\ log[r][j].body.id \in 1..Len(srvProjects)
              /\ srvProjects[log[r][j].body.id] = log[r][j].body.name

C4_Witness ==
    \E r \in Runs :
        /\ pc[r] = "rejected"
        /\ FailPos(r, "insert") # {}
        /\ OkPos(r, "experiment") # {}
        /\ Len(srvExperiments) > 0

\* C5 as stated: a failed completion of one row costs that row only; the
\* run still requests the other rows and reaches the insert request.
C5_Original ==
    \A r \in Runs :
        (Finished(r) /\ FailPos(r, "completion") # {}) =>
            /\ ReqPos(r, "insert") # {}
            /\ Cardinality(ReqPos(r, "completion")) = Len(dataset)

\* C5 amended: a failed completion of one row rejects the whole run with
\* that error: no later row is requested and neither the insert nor the
\* summarize request is issued.
C5_CompletionFailureAbortsRun ==
    \A r \in Runs :
        \A j \in FailPos(r, "completion") :
            /\ j = Len(log[r])
            /\ pc[r] = "rejected"
            /\ err[r] # Undefined
            /\ ReqPos(r, "insert") = {} /\ ReqPos(r, "summarize") = {}
            /\ Cardinality(ReqPos(r, "completion")) = idx[r]
            /\ Len(events[r]) = idx[r] - 1

C5_Witness ==
    \E r \in Runs :
        /\ pc[r] = "rejected"
        /\ FailPos(r, "completion") # {}
        /\ idx[r] < Len(dataset)

\* --- the scorer, stated without the operators of the model
\* two characters are the same letter up to case
SameLetter(a, b) ==
    \/ a = b
    \/ \E k \in 1..Len(UpperCase) :
          {a, b} \subseteq {UpperCase[k], LowerCase[k]}

\* e occurs in o as a contiguous run of characters, case ignored
OccursFolded(o, e) ==
    \E k \in 0..(Len(o) - Len(e)) :
        \A j \in 1..Len(e) : SameLetter(o[k + j], e[j])

\* C6 as stated: the scorer returns 1 when expected is non-empty and occurs
\* in output after case folding, and 0 for every other pair, the empty
\* expected string included.
C6_Original ==
    sPc # "ready" =>
        sScore = IF sExpected # <<>> /\ OccursFolded(OrEmpty(sOutput), sExpected)
                 THEN 1 ELSE 0

\* C6 amended: the scorer returns 1 exactly when expected occurs in output
\* after case folding, which an empty expected string always does: for the
\* empty expected string the score is 1 whatever the output; it is 0 for
\* every other pair.
C6_ScoreIsFoldedContainment ==
    sPc # "ready" =>
        /\ sScore = IF OccursFolded(OrEmpty(sOutput), sExpected) THEN 1 ELSE 0
        /\ sExpected = <<>> => sScore = 1

C6_Witness ==
    /\ sPc = "direct"
    /\ sOutput = Str(<<"b", "A">>)
    /\ sExpected = <<"a">>
    /\ sScore = 1

\* the completion requests of run r that have no response yet
InFlight(r) ==
    Cardinality(ReqPos(r, "completion"))
        - Cardinality(OkPos(r, "completion") \cup FailPos(r, "completion"))

\* C7 as stated: the completions of all rows are launched before any of
\* them has been awaited to its end, and the single insert comes after all
\* of them.
C7_Original ==
    \A r \in Runs :
        /\ OkPos(r, "completion") # {} =>
              Cardinality(ReqPos(r, "completion")) = Len(dataset)
        /\ \A j \in ReqPos(r, "insert") :
              Cardinality({i \in OkPos(r, "completion") : i < j}) = Len(dataset)

\* C7 amended: the rows are processed one at a time in dataset order: the
\* completion of a row is requested only after the completion of the row
\* before it has returned, so at most one is in flight in a run, and the
\* single insert comes after all of them have returned.
C7_RowsOneAtATime ==
    \A r \in Runs :
        /\ InFlight(r) <= 1
        /\ \A j \in ReqPos(r, "completion") :
              \A k \in 1..(log[r][j].body.row - 1) :
                  \E h \in ReqPos(r, "completion") :
                      /\ log[r][h].body.row = k
                      /\ h + 1 < j
                      /\ IsOkResp(log[r][h + 1], "completion")
        /\ \A j \in ReqPos(r, "insert") :
              Cardinality({i \in OkPos(r, "completion") : i < j}) = Len(dataset)
        /\ Cardinality(ReqPos(r, "insert")) <= 1

C7_Witness ==
    \E r \in Runs :
        /\ pc[r] = "await_completion"
        /\ InFlight(r) = 1
        /\ Cardinality(OkPos(r, "completion")) = 1
        /\ Cardinality(ReqPos(r, "completion")) = 2

\* C8: when a run issues the insert request, the completion of every row has
\* returned and the batch holds one event per dataset row, in dataset
\* order; a run that resolves returns one result per dataset row (3).
C8_BatchIsWholeDataset ==
    \A r \in Runs :
        /\ \A j \in ReqPos(r, "insert") :
              LET batch == log[r][j].body.events IN
              /\ InFlight(r) = 0
              /\ Cardinality({i \in OkPos(r, "completion") : i < j}) = Len(dataset)
              /\ Len(batch) = Len(dataset)
              /\ \A k \in 1..Len(batch) :
                    /\ batch[k].input = dataset[k].input
                    /\ batch[k].expected = dataset[k].expected
        /\ pc[r] = "resolved" =>
              /\ Len(ReturnValue(r).results) = 3
              /\ \A k \in 1..3 :
                    ReturnValue(r).results[k].input = dataset[k].input

C8_Witness ==
    \E r \in Runs :
        /\ pc[r] = "resolved"
        /\ ReqPos(r, "insert") # {}
        /\ Len(results[r]) = 3

\* C9: the project_id of a run's create-experiment request is the id of the
\* response to the same run's resolve-project request, received before it.
C9_ProjectIdFromOwnResponse ==
    \A r \in Runs :
        \A j \in ReqPos(r, "experiment") :
            /\ j > 1
            /\ IsOkResp(log[r][j - 1], "project")
            /\ log[r][j].body.project_id = log[r][j - 1].body.id
            /\ log[r][j].body.project_id = project[r].id

C9_Witness ==
    \E r \in Runs :
        \E j \in ReqPos(r, "experiment") : log[r][j].body.project_id = 2

\* the content of the completion run r received for row k
CompletionOf(r, k) ==
    log[r][(CHOOSE p \in ReqPos(r, "completion") : log[r][p].body.row = k) + 1].body

\* C10: however the runs interleave, the insert and the summarize request
\* of a run carry the experiment id of that run's own create-experiment
\* response, never the id another run received, and the events a run
\* inserts are those built from the completions it received itself.
C10_RunsAreIsolated ==
    \A r \in Runs :
        /\ \A j \in ReqPos(r, "insert") \cup ReqPos(r, "summarize") :
              /\ \E i \in OkPos(r, "experiment") :
                    i < j /\ log[r][j].path[3] = log[r][i].body.id
              /\ \A q \in Runs \ {r} :
                    \A i \in OkPos(q, "experiment") :
                        log[r][j].path[3] # log[q][i].body.id
        /\ \A j \in ReqPos(r, "insert") :
              \A k \in 1..Len(log[r][j].body.events) :
                  /\ k <= Len(dataset)
                  /\ log[r][j].body.events[k].output = OrEmpty(CompletionOf(r, k))
                  /\ log[r][j].body.events[k].input = dataset[k].input

C10_Witness ==
    \E r, q \in Runs :
        /\ r # q
        /\ ReqPos(r, "summarize") # {} /\ ReqPos(q, "insert") # {}
        /\ experiment[r].id = 2 /\ experiment[q].id = 1
        /\ events[r] # events[q]

\* C11: however often the project is resolved, by one run or by several,
\* the service ends up with at most one project record made by the runs,
\* and every resolve-project response carries the same project id.
C11_OneProjectRecord ==
    /\ Cardinality({k \in 1..Len(srvProjects) :
                      srvProjects[k] # ForeignProject}) <= 1
    /\ \A r, q \in Runs :
          \A i \in OkPos(r, "project") : \A j \in OkPos(q, "project") :
              /\ log[r][i].body.id = log[q][j].body.id
              /\ log[r][i].body.name = "cloudflare-worker-direct-api"
    /\ \A r \in Runs :
          \A j \in ReqPos(r, "project") :
              log[r][j].body.name = "cloudflare-worker-direct-api"

C11_Witness ==
    /\ \A r \in Runs : OkPos(r, "project") # {}
    /\ Len(srvProjects) = 2

\* the message each tracking-service helper throws with
FailurePrefix(op) ==
    CASE op = "project" -> "Failed to create project: "
      [] op = "experiment" -> "Failed to create experiment: "
      [] op = "insert" -> "Failed to insert events: "
      [] op = "summarize" -> "Failed to summarize experiment: "
      [] OTHER -> "openai: "

AllExact(r) ==
    /\ Cardinality(OkPos(r, "completion")) = Len(dataset)
    /\ \A k \in 1..Len(dataset) : CompletionOf(r, k) = Str(dataset[k].expected)

\* C13 as stated: when every completion is exactly the row's expected
\* string, every submitted event has the score 1 under the name correctness.
C13_Original ==
    \A r \in Runs :
        \A j \in ReqPos(r, "insert") :
            AllExact(r) =>
                \A k \in 1..Len(log[r][j].body.events) :
                    /\ "correctness" \in DOMAIN log[r][j].body.events[k].scores
                    /\ log[r][j].body.events[k].scores["correctness"] = 1

\* C13 amended: when every completion is exactly the row's expected string,
\* every submitted event has the score 1 under the name contains_expected,
\* the only score name of the event.
C13_ExactAnswersScoreOne ==
    \A r \in Runs :
        \A j \in ReqPos(r, "insert") :
            AllExact(r) =>
                \A k \in 1..Len(log[r][j].body.events) :
                    /\ DOMAIN log[r][j].body.events[k].scores = {"contains_expected"}
                    /\ log[r][j].body.events[k].scores["contains_expected"] = 1

C13_Witness ==
    \E r \in Runs :
        /\ ReqPos(r, "insert") # {}
        /\ AllExact(r)
        /\ Len(events[r]) = 3

\* what happened in run r, without the data: requests and ok/failed responses
LogShape(r) ==
    [j \in 1..Len(log[r]) |->
        IF log[r][j].t = "req" THEN "req"
        ELSE IF log[r][j].ok THEN "ok" ELSE "fail"]
ReqOps(r) ==
    [j \in 1..Len(log[r]) |->
        IF log[r][j].t = "req" THEN log[r][j].op ELSE "-"]
AllScores(r, v) ==
    Len(events[r]) = Len(dataset)
        /\ \A k \in 1..Len(events[r]) : events[r][k].scores.contains_expected = v

\* C14: the scores do not steer the run: two runs whose responses were ok
\* or failed at the same places issued the same requests and are at the
\* same point, whatever their rows scored; a run is rejected only on a
\* failed response, never on a score; a run that has scored its last row has
\* issued the insert, and a resolved run holds its summary.
C14_ScoresDoNotSteer ==
    /\ \A r, q \in Runs :
          LogShape(r) = LogShape(q) =>
              /\ ReqOps(r) = ReqOps(q)
              /\ pc[r] = pc[q]
              /\ (summary[r] = Undefined) = (summary[q] = Undefined)
    /\ \A r \in Runs :
          /\ pc[r] = "rejected" =>
                /\ log[r][Len(log[r])].t = "resp"
                /\ ~log[r][Len(log[r])].ok
          /\ \A j \in 1..Len(log[r]) - 1 :
                IsOkResp(log[r][j], "completion") => log[r][j + 1].t = "req"
          /\ Len(events[r]) = Len(dataset) => ReqPos(r, "insert") # {}
          /\ pc[r] = "resolved" =>
                /\ ReqPos(r, "summarize") # {}
                /\ ReturnValue(r).summary # Undefined

C14_Witness ==
    \E r, q \in Runs :
        /\ pc[r] = "resolved" /\ pc[q] = "resolved"
        /\ AllScores(r, 0) /\ AllScores(q, 1)

\* the create-experiment request of run r, when it has issued one
ExperimentNameOf(r) ==
    log[r][CHOOSE p \in ReqPos(r, "experiment") : TRUE].body.name

\* C21: every request to the tracking service (project, experiment, insert,
\* summarize) carries Authorization: Bearer <BRAINTRUST_API_KEY>; none goes
\* without it, and none carries the OPENAI_API_KEY.
C21_TrackingRequestsBearBraintrustKey ==
    \A r \in Runs : \A j \in 1..Len(log[r]) :
        (log[r][j].t = "req" /\ log[r][j].op \in TrackingOps) =>
            /\ log[r][j].auth = <<"Bearer ", Env.BRAINTRUST_API_KEY>>
            /\ log[r][j].auth[2] # Env.OPENAI_API_KEY

C21_Witness ==
    \E r \in Runs :
        /\ pc[r] = "resolved"
        /\ \A op \in TrackingOps : ReqPos(r, op) # {}
        /\ \E j \in ReqPos(r, "completion") :
              log[r][j].auth = <<"Bearer ", Env.OPENAI_API_KEY>>

C24_Original ==
    \A r, q \in Runs :
        (r # q /\ ReqPos(r, "experiment") # {} /\ ReqPos(q, "experiment") # {})
        => ExperimentNameOf(r) # ExperimentNameOf(q)

\* C24: the experiment name a run sends is `direct-api-` followed by the
\* value Date.now() has when the run issues its create-experiment request;
\* nothing else tells the names of two runs apart.
C24_NameIsClockReading ==
    [][ \A r \in Runs :
          (pc[r] = "await_project" /\ pc'[r] = "await_experiment") =>
              log'[r][Len(log'[r])].body.name = <<"direct-api-", now'>> ]_vars

C24_Witness ==
    \E r, q \in Runs :
        /\ r # q
        /\ experiment[r] # Undefined /\ experiment[q] # Undefined
        /\ experiment[r].name = experiment[q].name
        /\ experiment[r].name = <<"direct-api-", 1>>
        /\ experiment[r].id # experiment[q].id

\* C27: a completion whose content is null or empty still yields an event
\* for its row, with output "" and, the expected string being non-empty,
\* score 0; the run goes on with the next row's completion, or with the
\* insert after the last row.
C27_EmptyContentIsRecorded ==
    \A r \in Runs : \A p \in OkPos(r, "completion") :
        LET c == log[r][p].body
            k == log[r][p - 1].body.row
        IN
        (c.kind = "null" \/ c.val = <<>>) =>
            /\ k <= Len(events[r])
            /\ events[r][k].output = <<>>
            /\ dataset[k].expected # <<>> =>
                  events[r][k].scores.contains_expected = 0
            /\ p < Len(log[r])
            /\ IF k < Len(dataset)
               THEN IsReq(log[r][p + 1], "completion")
                       /\ log[r][p + 1].body.row = k + 1
               ELSE IsReq(log[r][p + 1], "insert")

C27_Witness ==
    \E r \in Runs :
        /\ pc[r] = "resolved"
        /\ CompletionOf(r, 1) = NullContent
        /\ CompletionOf(r, 3) = Str(<<>>)
        /\ events[r][1].output = <<>>
        /\ events[r][3].scores.contains_expected = 0

\* C28: events and results stay aligned: equal length, and at every index
\* the same input, output and expected, with contains_expected equal to the
\* result's score, which is 0 or 1.
C28_EventsAndResultsAligned ==
    \A r \in Runs :
        /\ Len(events[r]) = Len(results[r])
        /\ \A i \in 1..Len(events[r]) :
              /\ events[r][i].input = results[r][i].input
              /\ events[r][i].output = results[r][i].output
              /\ events[r][i].expected = results[r][i].expected
              /\ events[r][i].scores.contains_expected = results[r][i].score
              /\ results[r][i].score \in {0, 1}

C28_Witness ==
    \E r \in Runs :
        /\ Len(results[r]) = Len(dataset)
        /\ results[r][1].score = 1
        /\ results[r][2].score = 0
        /\ events[r][2].scores.contains_expected = 0

\* C26: customScorer returns the fraction of the lower-cased words of expected
\* that occur among the lower-cased words of output: the denominator is the
\* number of words of expected and is never 0 (the empty string has one,
\* empty, word), the result lies in [0,1], and it is 1 exactly when every
\* word of expected occurs in output.
C26_WordOverlapIsFraction ==
    sPc = "custom" =>
        LET ow == split(toLowerCase(sOutput))
            ew == split(toLowerCase(sExpected))
            hits == { i \in 1..Len(ew) : \E j \in 1..Len(ow) : ow[j] = ew[i] }
        IN
        /\ "nan" \notin DOMAIN sScore
        /\ sScore.den = Len(ew)
        /\ sScore.den >= 1
        /\ sScore.num = Cardinality(hits)
        /\ 0 <= sScore.num /\ sScore.num <= sScore.den
        /\ (sScore.num = sScore.den) <=> (hits = 1..Len(ew))

C26_Witness ==
    /\ sPc = "custom"
    /\ sExpected = <<>>
    /\ sOutput = <<"a", " ", "B">>
    /\ sScore = [num |-> 0, den |-> 1]

\* ============================================================ the worker
\* src/index.ts: the fetch and scheduled handlers, runEval, runTracingExample.
\* login, Eval, the logger and the OpenAI client are the SDKs': a call of one
\* of them is an entry of `out`, and it resolves or rejects as the SDK decides.
pipelineVars == <<runVars, now, srvVars, scorerVars>>

Paths == {"/", "/trace", "/run-eval", "/run-experiment", "/run-direct-api"}

\* the environments a handler may be invoked with
WorkerEnvs ==
    { [BRAINTRUST_API_KEY |-> <<"s","k","-","1">>, OPENAI_API_KEY |-> <<"o">>],
      [BRAINTRUST_API_KEY |-> <<"s","k","-","2">>, OPENAI_API_KEY |-> <<"o">>],
      [OPENAI_API_KEY |-> <<"o">>] }

\* what the SDK calls may throw or return
Err(m) == [isError |-> TRUE, message |-> m]
LoginErrors == { Err("Invalid API key") }
EvalErrors == { Err("Eval failed"), [isError |-> FALSE, value |-> "aborted"] }
CompletionErrors == { Err("401 Unauthorized") }
ParseErrors == { Err("Unexpected token in JSON") }
EvalResults ==
    { [summary |-> "summary-a", results |-> <<"row-1", "row-2", "row-3">>],
      [summary |-> "summary-b", results |-> <<>>] }
\* choices[0].message of a completion that was offered a tool
\* tool_calls is undefined or an array; an entry is the text of its
\* function.arguments, which is JSON or is not
NoToolCalls == [kind |-> "undefined"]
ToolCallsOf(list) == [kind |-> "array", list |-> list]
ToolMessages ==
    { [tool_calls |-> NoToolCalls],
      [tool_calls |-> ToolCallsOf(<<"json">>)],
      [tool_calls |-> ToolCallsOf(<<"json", "json">>)],
      [tool_calls |-> ToolCallsOf(<<"not json">>)] }
TraceContents == { Str(<<"t","e","x","t">>), NullContent }

\* error instanceof Error ? error.message : String(error)
ErrorText(e) == IF e.isError THEN e.message ELSE e.value

\* String.prototype.substring(0, n)
substring0(str, n) == SubSeq(str, 1, IF Len(str) < n THEN Len(str) ELSE n)

KeyPrefixLen == 10

\* the `debug` object of the /run-eval error response, as JSON.stringify
\* writes it: members whose value is undefined are left out
Debug(env) ==
    IF "BRAINTRUST_API_KEY" \in DOMAIN env
    THEN [envKeys |-> DOMAIN env,
          hasBraintrustKey |-> TRUE,
          braintrustKeyType |-> "string",
          braintrustKeyLength |-> Len(env.BRAINTRUST_API_KEY),
          braintrustKeyPrefix |-> substring0(env.BRAINTRUST_API_KEY, KeyPrefixLen)]
    ELSE [envKeys |-> DOMAIN env,
          hasBraintrustKey |-> FALSE,
          braintrustKeyType |-> "undefined"]

\* new Response(JSON.stringify(body), { status, headers })
Response(status, body) ==
    [status |-> status, body |-> body, contentType |-> "application/json"]

LandingBody ==
    [message |-> "Braintrust Eval Worker",
     endpoints |-> [trace |-> "Run tracing example with OpenAI tool calls",
                    runEval |-> "Run the evaluation"]]

\* the body of the catch block of /run-eval
EvalErrorBody(env, e) ==
    [success |-> FALSE, error |-> ErrorText(e), debug |-> Debug(env)]

\* the body of the catch block of /trace
TraceErrorBody(e) ==
    IF e.isError
    THEN [success |-> FALSE, error |-> ErrorText(e), stack |-> "stack"]
    ELSE [success |-> FALSE, error |-> ErrorText(e)]

\* a dispatch that takes every /run-... path for /run-eval
RouteLoose(path) ==
    IF path = "/trace" THEN "trace"
    ELSE IF path \in {"/run-eval", "/run-experiment", "/run-direct-api"}
         THEN "eval"
         ELSE "landing"

\* the two `if (url.pathname === ...)` of fetch
Route(path) ==
    IF path = "/trace" THEN "trace"
    ELSE IF path = "/run-eval" THEN "eval"
         ELSE "landing"

SetCall(q, rec) ==
    /\ calls' = [calls EXCEPT ![q] = rec]
    /\ UNCHANGED <<pipelineVars, task, sdk>>

\* fetch(request, env, ctx) is invoked: it runs to its first await (the
\* login of runTracingExample or of runEval) or returns the landing response
FetchCall(q) ==
    /\ calls[q].kind = "none"
    /\ \E path \in Paths, env \in WorkerEnvs :
        LET c == [calls[q] EXCEPT !.kind = "fetch", !.path = path, !.env = env]
        IN
        CASE Route(path) = "trace" ->
                SetCall(q, [c EXCEPT !.handler = "pending", !.promise = "pending",
                                     !.out = <<"login">>, !.pc = "trace_login"])
          [] Route(path) = "eval" ->
                SetCall(q, [c EXCEPT !.handler = "pending", !.promise = "pending",
                                     !.out = <<"login">>, !.pc = "eval_login"])
          [] OTHER ->
                SetCall(q, [c EXCEPT !.handler = "returned", !.pc = "done",
                                     !.response = Response(200, LandingBody)])

\* a scheduled handler that drops the promise of runEval
ScheduledCallNoWaitUntil(q) ==
    /\ calls[q].kind = "none"
    /\ \E env \in WorkerEnvs :
        SetCall(q, [calls[q] EXCEPT !.kind = "scheduled", !.env = env,
                                    !.promise = "pending", !.out = <<"login">>,
                                    !.pc = "eval_login",
                                    !.handler = "returned"])

\* scheduled(event, env, ctx): ctx.waitUntil(runEval(env)), then it returns
ScheduledCall(q) ==
    /\ calls[q].kind = "none"
    /\ \E env \in WorkerEnvs :
        SetCall(q, [calls[q] EXCEPT !.kind = "scheduled", !.env = env,
                                    !.promise = "pending", !.out = <<"login">>,
                                    !.pc = "eval_login",
                                    !.wait = <<"runEval">>,
                                    !.handler = "returned"])

\* ---------------------------------------------------------------- runEval
\* runEval rejects with e: /run-eval catches it; scheduled has no catch
RunEvalRejects(q, e) ==
    LET c == [calls[q] EXCEPT !.promise = "rejected", !.thrown = e, !.pc = "done"]
    IN IF calls[q].kind = "fetch"
       THEN SetCall(q, [c EXCEPT !.handler = "returned",
                          !.response = Response(500, EvalErrorBody(c.env, e))])
       ELSE SetCall(q, c)

\* runEval returns result: /run-eval answers with its summary and results
RunEvalResolves(q, res) ==
    LET c == [calls[q] EXCEPT !.promise = "resolved", !.result = res, !.pc = "done"]
    IN IF calls[q].kind = "fetch"
       THEN SetCall(q, [c EXCEPT !.handler = "returned",
                          !.response = Response(200,
                              [success |-> TRUE, summary |-> res.summary,
                               results |-> res.results])])
       ELSE SetCall(q, c)

\* await login(...) resolves: Eval is called
EvalLoginOk(q) ==
    /\ calls[q].pc = "eval_login"
    /\ SetCall(q, [calls[q] EXCEPT !.out = Append(@, "Eval"), !.pc = "eval_run"])

\* await login(...) rejects
EvalLoginFail(q) ==
    /\ calls[q].pc = "eval_login"
    /\ \E e \in LoginErrors : RunEvalRejects(q, e)

\* await Eval(...) resolves
EvalOk(q) ==
    /\ calls[q].pc = "eval_run"
    /\ \E res \in EvalResults : RunEvalResolves(q, res)

\* a catch block that answers with a message of its own
EvalFailMasked(q) ==
    /\ calls[q].pc = "eval_run"
    /\ \E e \in EvalErrors :
        SetCall(q, [calls[q] EXCEPT
            !.promise = "rejected", !.thrown = e, !.pc = "done",
            !.handler = IF calls[q].kind = "fetch" THEN "returned" ELSE @,
            !.response = IF calls[q].kind = "fetch"
                         THEN Response(500, [success |-> FALSE,
                                             error |-> "Internal error",
                                             debug |-> Debug(calls[q].env)])
                         ELSE @])

\* await Eval(...) rejects
EvalFail(q) ==
    /\ calls[q].pc = "eval_run"
    /\ \E e \in EvalErrors : RunEvalRejects(q, e)

\* ------------------------------------------------------ runTracingExample
\* a /trace branch without the try/catch: the handler rejects
TraceRejectsUncaught(q, c, e) ==
    SetCall(q, [c EXCEPT
        !.promise = "rejected", !.thrown = e, !.pc = "done",
        !.handler = "rejected"])

\* runTracingExample, suspended with locals c, rejects with e; the catch
\* block of /trace answers 500. The statements after the throwing await,
\* logger.flush() and ctx.waitUntil among them, are not executed.
TraceRejects(q, c, e) ==
    SetCall(q, [c EXCEPT
        !.promise = "rejected", !.thrown = e, !.pc = "done",
        !.handler = "returned",
        !.response = Response(500, TraceErrorBody(e))])

\* the end of the traced callback and of runTracingExample: span.log of the
\* output, logger.flush(), ctx.waitUntil(flushPromise), and the 200 response
TraceCompletes(q, c) ==
    LET output == [weather |-> c.weather, search |-> c.search]
    IN SetCall(q, [c EXCEPT
        !.out = @ \o <<"span.log:output", "flush">>,
        !.wait = Append(@, "flush"),
        !.promise = "resolved", !.result = output, !.pc = "done",
        !.handler = "returned",
        !.response = Response(200, [success |-> TRUE, result |-> output])])

\* await login(...) resolves: initLogger, logger.traced, span.log of the
\* input, and the first completion is requested
TraceLoginOk(q) ==
    /\ calls[q].pc = "trace_login"
    /\ SetCall(q, [calls[q] EXCEPT
          !.out = @ \o <<"initLogger", "span.log:input", "completion:weather">>,
          !.pc = "trace_weather"])

\* await login(...) rejects
TraceLoginFail(q) ==
    /\ calls[q].pc = "trace_login"
    /\ \E e \in LoginErrors : TraceRejects(q, calls[q], e)

\* a branch that calls the tool once for every tool call of the message
WeatherOkEveryToolCall(q) ==
    /\ calls[q].pc = "trace_weather"
    /\ \E m \in ToolMessages :
        LET c == [calls[q] EXCEPT !.weatherMessage = m, !.settled = @ + 1] IN
        IF m.tool_calls.kind = "undefined"
        THEN SetCall(q, [c EXCEPT
                !.out = Append(@, "completion:search"), !.pc = "trace_search"])
        ELSE IF \A n \in 1..Len(m.tool_calls.list) : m.tool_calls.list[n] = "json"
             THEN SetCall(q, [c EXCEPT
                     !.out = @ \o [n \in 1..Len(m.tool_calls.list) |->
                                      "tool:getCurrentWeather"]
                               \o <<"completion:weather-followup">>,
                     !.weather = <<"j","s","o","n">>,
                     !.pc = "trace_weather_followup"])
             ELSE \E e \in ParseErrors : TraceRejects(q, c, e)

\* the weather completion resolves: without tool_calls the search completion
\* is requested; with them the arguments of tool_calls[0] are parsed,
\* getCurrentWeather is called and the follow-up completion is requested
WeatherOk(q) ==
    /\ calls[q].pc = "trace_weather"
    /\ \E m \in ToolMessages :
        LET c == [calls[q] EXCEPT !.weatherMessage = m, !.settled = @ + 1] IN
        IF m.tool_calls.kind = "undefined"
        THEN SetCall(q, [c EXCEPT
                !.out = Append(@, "completion:search"), !.pc = "trace_search"])
        ELSE IF m.tool_calls.list[1] = "json"
             THEN SetCall(q, [c EXCEPT
                     !.out = @ \o <<"tool:getCurrentWeather",
                                    "completion:weather-followup">>,
                     !.weather = <<"j","s","o","n">>,
                     !.pc = "trace_weather_followup"])
             ELSE \E e \in ParseErrors : TraceRejects(q, c, e)

\* the weather completion rejects
WeatherFail(q) ==
    /\ calls[q].pc = "trace_weather"
    /\ \E e \in CompletionErrors :
        TraceRejects(q, [calls[q] EXCEPT !.settled = @ + 1], e)

\* the weather follow-up resolves: weatherResult = content || ""
WeatherFollowUpOk(q) ==
    /\ calls[q].pc = "trace_weather_followup"
    /\ \E content \in TraceContents :
        SetCall(q, [calls[q] EXCEPT
            !.settled = @ + 1,
            !.weather = OrEmpty(content),
            !.out = Append(@, "completion:search"), !.pc = "trace_search"])

\* the weather follow-up rejects
WeatherFollowUpFail(q) ==
    /\ calls[q].pc = "trace_weather_followup"
    /\ \E e \in CompletionErrors :
        TraceRejects(q, [calls[q] EXCEPT !.settled = @ + 1], e)

\* the search completion resolves: without tool_calls the callback ends; with
\* them the arguments of tool_calls[0] are parsed, searchDatabase is called
\* and the follow-up completion is requested
SearchOk(q) ==
    /\ calls[q].pc = "trace_search"
    /\ \E m \in ToolMessages :
        LET c == [calls[q] EXCEPT !.searchMessage = m, !.settled = @ + 1] IN
        IF m.tool_calls.kind = "undefined"
        THEN TraceCompletes(q, c)
        ELSE IF m.tool_calls.list[1] = "json"
             THEN SetCall(q, [c EXCEPT
                     !.out = @ \o <<"tool:searchDatabase",
                                    "completion:search-followup">>,
                     !.search = <<"j","s","o","n">>,
                     !.pc = "trace_search_followup"])
             ELSE \E e \in ParseErrors : TraceRejects(q, c, e)

\* the search completion rejects
SearchFail(q) ==
    /\ calls[q].pc = "trace_search"
    /\ \E e \in CompletionErrors :
        TraceRejects(q, [calls[q] EXCEPT !.settled = @ + 1], e)

\* the search follow-up resolves: searchResult = content || ""
SearchFollowUpOk(q) ==
    /\ calls[q].pc = "trace_search_followup"
    /\ \E content \in TraceContents :
        TraceCompletes(q, [calls[q] EXCEPT !.settled = @ + 1,
                                           !.search = OrEmpty(content)])

\* the search follow-up rejects
SearchFollowUpFail(q) ==
    /\ calls[q].pc = "trace_search_followup"
    /\ \E e \in CompletionErrors :
        TraceRejects(q, [calls[q] EXCEPT !.settled = @ + 1], e)

\* the worker before any invocation; the tracking service plays no part
InitWorker == Init /\ srvProjects = <<>>

NextWorker ==
    \E q \in Calls :
        \/ FetchCall(q)
        \/ ScheduledCall(q)
        \/ EvalLoginOk(q)
        \/ EvalLoginFail(q)
        \/ EvalOk(q)
        \/ EvalFail(q)
        \/ TraceLoginOk(q)
        \/ TraceLoginFail(q)
        \/ WeatherOk(q)
        \/ WeatherFail(q)
        \/ WeatherFollowUpOk(q)
        \/ WeatherFollowUpFail(q)
        \/ SearchOk(q)
        \/ SearchFail(q)
        \/ SearchFollowUpOk(q)
        \/ SearchFollowUpFail(q)

SpecWorker == InitWorker /\ [][NextWorker]_vars

\* ------------------------------------------------------ reading the calls
IsFetch(q, path) == calls[q].kind = "fetch" /\ calls[q].path = path
Answered(q) == calls[q].handler = "returned" /\ calls[q].response # Undefined
Has(seq, x) == \E i \in 1..Len(seq) : seq[i] = x
Count(seq, x) == Cardinality({i \in 1..Len(seq) : seq[i] = x})
RunEvalOuts == { <<"login">>, <<"login", "Eval">> }

\* C15: a /run-eval request is answered 200 with {success: true, summary,
\* results} of the value runEval resolved with exactly when runEval resolves,
\* and 500 with success false and the thrown error's own message exactly when
\* runEval rejects, which happens at login or at Eval; the handler is pending
\* exactly while runEval is, and then returns a response: it never rejects.
C15_RunEvalResponseMirrorsOutcome ==
    \A q \in Calls : IsFetch(q, "/run-eval") =>
        LET c == calls[q] IN
        /\ c.handler \in {"pending", "returned"}
        /\ (c.handler = "pending") <=> (c.promise = "pending")
        /\ c.handler = "returned" =>
            /\ c.response # Undefined
            /\ (c.response.status = 200) <=> (c.promise = "resolved")
            /\ (c.response.status = 500) <=> (c.promise = "rejected")
            /\ c.promise = "resolved" =>
                  c.response.body = [success |-> TRUE,
                                     summary |-> c.result.summary,
                                     results |-> c.result.results]
            /\ c.promise = "rejected" =>
                  /\ c.response.body.success = FALSE
                  /\ c.response.body.error =
                        (IF c.thrown.isError THEN c.thrown.message
                                             ELSE c.thrown.value)
                  /\ c.out[Len(c.out)] \in {"login", "Eval"}

C15_Witness ==
    \E q, p \in Calls :
        /\ IsFetch(q, "/run-eval") /\ Answered(q)
        /\ calls[q].response.status = 200
        /\ calls[q].response.body.summary = "summary-a"
        /\ IsFetch(p, "/run-eval") /\ Answered(p)
        /\ calls[p].response.status = 500
        /\ calls[p].response.body.error = "Eval failed"

\* C16: for the same thrown error and the same binding names, two
\* environments whose BRAINTRUST_API_KEY values differ in content get the
\* same /run-eval error body. The source violates this: the body carries
\* braintrustKeyPrefix, the first ten characters of the key.
C16_KeyContentsNotInBody ==
    \A q, p \in Calls :
        ( /\ IsFetch(q, "/run-eval") /\ Answered(q)
          /\ IsFetch(p, "/run-eval") /\ Answered(p)
          /\ calls[q].promise = "rejected" /\ calls[p].promise = "rejected"
          /\ calls[q].thrown = calls[p].thrown
          /\ DOMAIN calls[q].env = DOMAIN calls[p].env )
        => calls[q].response.body = calls[p].response.body

C16_Witness ==
    \E q, p \in Calls :
        /\ IsFetch(q, "/run-eval") /\ Answered(q)
        /\ IsFetch(p, "/run-eval") /\ Answered(p)
        /\ calls[q].thrown = Err("Invalid API key")
        /\ calls[p].thrown = Err("Invalid API key")
        /\ "BRAINTRUST_API_KEY" \in DOMAIN calls[q].env
        /\ "BRAINTRUST_API_KEY" \in DOMAIN calls[p].env
        /\ calls[q].env.BRAINTRUST_API_KEY # calls[p].env.BRAINTRUST_API_KEY
        /\ calls[q].response.body.debug.braintrustKeyPrefix
              = calls[q].env.BRAINTRUST_API_KEY
        /\ calls[p].response.body.debug.braintrustKeyPrefix
              = calls[p].env.BRAINTRUST_API_KEY

\* C17: a scheduled event starts exactly one runEval (one login, then at most
\* one Eval, the calls /run-eval makes), has handed its promise and nothing
\* else to ctx.waitUntil, has returned while the run may still be pending, and
\* has no response; a rejected run stays rejected, with no response made of it.
C17_ScheduledHandsRunToWaitUntil ==
    \A q \in Calls : calls[q].kind = "scheduled" =>
        LET c == calls[q] IN
        /\ c.wait = <<"runEval">>
        /\ c.handler = "returned"
        /\ c.response = Undefined
        /\ c.promise \in {"pending", "resolved", "rejected"}
        /\ Count(c.out, "login") = 1
        /\ c.out \in RunEvalOuts
        /\ \A p \in Calls :
              IsFetch(p, "/run-eval") => calls[p].out \in RunEvalOuts
        /\ c.promise = "rejected" => c.thrown # Undefined

C17_Witness ==
    \E q, p \in Calls :
        /\ calls[q].kind = "scheduled"
        /\ calls[q].promise = "rejected"
        /\ calls[q].thrown = Err("Eval failed")
        /\ calls[p].kind = "scheduled"
        /\ calls[p].promise = "pending"
        /\ calls[p].handler = "returned"

\* C18: a request to /run-experiment or /run-direct-api is answered with a
\* body that has success true with summary, results and experimentUrl, or has
\* an error field, and never with the landing message. The source violates
\* this: fetch has no branch for either path and answers with the landing
\* message.
C18_ExperimentRoutesDispatched ==
    \A q \in Calls :
        ( /\ calls[q].kind = "fetch"
          /\ calls[q].path \in {"/run-experiment", "/run-direct-api"}
          /\ Answered(q) )
        => LET b == calls[q].response.body IN
           /\ "message" \notin DOMAIN b
           /\ \/ "error" \in DOMAIN b
              \/ {"success", "summary", "results", "experimentUrl"}
                    \subseteq DOMAIN b

C18_Witness ==
    \E q, p \in Calls :
        /\ IsFetch(q, "/run-experiment") /\ Answered(q)
        /\ calls[q].response.body = LandingBody
        /\ calls[q].out = <<>>
        /\ IsFetch(p, "/run-direct-api") /\ Answered(p)
        /\ calls[p].response.body = LandingBody
        /\ calls[p].out = <<>>

C20_LoggedTraceIsFlushed ==
    \A q \in Calls :
        ( /\ IsFetch(q, "/trace") /\ Answered(q)
          /\ Has(calls[q].out, "span.log:input") )
        => /\ Has(calls[q].out, "flush")
           /\ Has(calls[q].wait, "flush")

C20_Witness ==
    \E q, p \in Calls :
        /\ IsFetch(q, "/trace") /\ Answered(q)
        /\ calls[q].response.status = 500
        /\ Has(calls[q].out, "span.log:input")
        /\ ~Has(calls[q].out, "flush")
        /\ calls[q].wait = <<>>
        /\ IsFetch(p, "/trace") /\ Answered(p)
        /\ calls[p].response.status = 200
        /\ calls[p].wait = <<"flush">>

\* ------------------------------------------------- reading a /trace call
CompletionNames ==
    <<"completion:weather", "completion:weather-followup",
      "completion:search", "completion:search-followup">>
IsCompletion(x) == \E n \in 1..Len(CompletionNames) : CompletionNames[n] = x
CompletionsOf(q) == SelectSeq(calls[q].out, IsCompletion)
OrderOf(x) == CHOOSE n \in 1..Len(CompletionNames) : CompletionNames[n] = x
HasToolCalls(m) == m # Undefined /\ m.tool_calls.kind = "array"
FirstParses(m) == HasToolCalls(m) /\ m.tool_calls.list[1] = "json"
AwaitingCompletion(q) ==
    calls[q].pc \in {"trace_weather", "trace_weather_followup",
                     "trace_search", "trace_search_followup"}

C30_FetchAlwaysAnswers ==
    /\ [](\A q \in Calls : calls[q].kind = "fetch" =>
            LET c == calls[q] IN
            /\ c.handler \in {"pending", "returned"}
            /\ (c.handler = "returned") <=> (c.response # Undefined)
            /\ (c.handler = "pending") <=> (c.promise = "pending")
            /\ c.promise = "rejected" =>
                  /\ c.path \in {"/trace", "/run-eval"}
                  /\ c.response.status = 500
                  /\ c.response.body.success = FALSE
                  /\ "error" \in DOMAIN c.response.body)
    /\ [][\A q \in Calls :
            calls[q].response # Undefined => calls'[q] = calls[q]]_vars

C30_Witness ==
    \E q, p \in Calls :
        /\ IsFetch(q, "/trace") /\ Answered(q)
        /\ calls[q].thrown \in ParseErrors
        /\ calls[q].response.status = 500
        /\ calls[q].response.body.success = FALSE
        /\ IsFetch(p, "/run-eval") /\ Answered(p)
        /\ calls[p].thrown = [isError |-> FALSE, value |-> "aborted"]
        /\ calls[p].response.status = 500
        /\ calls[p].response.body.success = FALSE

\* ================================================= the task of runEval
\* src/index.ts 219-250: the task callback Eval calls for a dataset row
TaskInputs == { dataset[k].input : k \in 1..Len(dataset) }
\* data.choices[0].message.content of an ok response
TaskContents == UNION { CompletionChoices(k) : k \in 1..Len(dataset) }
TaskError(message) == [isError |-> TRUE, message |-> message]

SetTask(t, rec) ==
    /\ task' = [task EXCEPT ![t] = rec]
    /\ UNCHANGED <<pipelineVars, calls, sdk>>

\* task(input) is called: it runs up to `await fetch(...)`
TaskCall(t) ==
    /\ task[t].pc = "idle"
    /\ \E input \in TaskInputs :
        SetTask(t, [task[t] EXCEPT
            !.pc = "await_fetch", !.input = input,
            !.request = [url |-> "https://api.openai.com/v1/chat/completions",
                         method |-> "POST",
                         auth |-> Bearer(Env.OPENAI_API_KEY),
                         body |-> [model |-> "gpt-4o-mini", user |-> input,
                                   temperature |-> 0]]])

\* fetch rejects (no response at all): the task rejects with that error
TaskFetchRejects(t) ==
    /\ task[t].pc = "await_fetch"
    /\ SetTask(t, [task[t] EXCEPT
          !.pc = "threw", !.error = TaskError(<<"Network connection lost">>)])

\* fetch resolves with response.ok: `await response.json()` is started
TaskFetchOk(t) ==
    /\ task[t].pc = "await_fetch"
    /\ SetTask(t, [task[t] EXCEPT
          !.pc = "await_json", !.bodyRead = TRUE,
          !.response = [ok |-> TRUE, statusText |-> "OK"]])

\* a task that answers a non-ok response with whatever its body holds
TaskFetchNotOkReadsBody(t) ==
    /\ task[t].pc = "await_fetch"
    /\ \E st \in StatusTexts :
        SetTask(t, [task[t] EXCEPT
            !.pc = "await_json", !.bodyRead = TRUE,
            !.response = [ok |-> FALSE, statusText |-> st]])

\* fetch resolves with !response.ok: throw new Error(`OpenAI API error: ...`)
TaskFetchNotOk(t) ==
    /\ task[t].pc = "await_fetch"
    /\ \E st \in StatusTexts :
        SetTask(t, [task[t] EXCEPT
            !.pc = "threw",
            !.response = [ok |-> FALSE, statusText |-> st],
            !.error = TaskError(<<"OpenAI API error: ", st>>)])

\* response.json() resolves: return data.choices[0].message.content
TaskJsonOk(t) ==
    /\ task[t].pc = "await_json"
    /\ \E content \in TaskContents :
        SetTask(t, [task[t] EXCEPT !.pc = "returned", !.output = content])

\* response.json() rejects: the body is not JSON
TaskJsonFail(t) ==
    /\ task[t].pc = "await_json"
    /\ SetTask(t, [task[t] EXCEPT
          !.pc = "threw", !.error = TaskError(<<"Unexpected end of JSON input">>)])

\* the task before any invocation; the tracking service plays no part
InitTask == Init /\ srvProjects = <<>>

NextTask ==
    \E t \in Tasks :
        \/ TaskCall(t)
        \/ TaskFetchRejects(t)
        \/ TaskFetchOk(t)
        \/ TaskFetchNotOk(t)
        \/ TaskJsonOk(t)
        \/ TaskJsonFail(t)

SpecTask == InitTask /\ [][NextTask]_vars

\* C22: when the completion endpoint answers the task with a non-success
\* status, the task has thrown an error carrying the upstream status text,
\* has not read the response body and has returned no output.
C22_NonOkCompletionFailsTask ==
    \A t \in Tasks :
        (task[t].response # Undefined /\ ~task[t].response.ok) =>
            /\ task[t].pc = "threw"
            /\ task[t].error # Undefined
            /\ task[t].error.message =
                  <<"OpenAI API error: ", task[t].response.statusText>>
            /\ ~task[t].bodyRead
            /\ task[t].output = Undefined

C22_Witness ==
    \E t, u \in Tasks :
        /\ task[t].pc = "threw"
        /\ task[t].response = [ok |-> FALSE, statusText |-> "Unauthorized"]
        /\ task[t].error.message = <<"OpenAI API error: ", "Unauthorized">>
        /\ task[u].pc = "returned"
        /\ task[u].input = task[t].input

\* ================================================ the Logging-SDK flows
\* "test": logging-sdk-optimizer.test.ts 20-84, a for-of loop that awaits
\* experiment.traced for each row. "doc": runExperiment of
\* docs/WHY_EVAL_DOESNT_WORK.md 532-586, which collects the promises of
\* experiment.traced and awaits Promise.all. login, init, traced, span.log
\* and summarize are the SDK's: a call of one of them is an entry of `trace`.
sdkDataset == SubSeq(dataset, 1, 2)

Step(op, row) == [op |-> op, row |-> row]

\* the object given to span.log and the object the traced callback returns
SdkEvent(f, row, output, sc, response) ==
    [input |-> row.input, output |-> output, expected |-> row.expected,
     scores |-> IF f = "test" THEN [correctness |-> sc]
                ELSE [contains_expected |-> sc],
     metadata |-> [model |-> response.model, usage |-> response.usage]]

\* the score as each flow computes it
SdkScore(f, output, expected) ==
    IF f = "test"
    THEN IF includes(toLowerCase(output), toLowerCase(expected)) THEN 1 ELSE 0
    ELSE IF includes(output, expected) THEN 1 ELSE 0

\* a flow that goes on as soon as one callback has finished
AnySettled(pendingAfter) == TRUE

\* await Promise.all(promises) resumes when no callback is pending
AllSettled(pendingAfter) == pendingAfter = {}

SetFlow(f, rec) ==
    /\ sdk' = [sdk EXCEPT ![f] = rec]
    /\ UNCHANGED <<pipelineVars, calls, task>>

\* the flow is called: it runs up to `await login(...)`
SdkStart(f) ==
    /\ sdk[f].pc = "idle"
    /\ SetFlow(f, [sdk[f] EXCEPT !.pc = "await_login",
                                 !.trace = <<Step("login", 0)>>])

\* login rejects
SdkLoginFail(f) ==
    /\ sdk[f].pc = "await_login"
    /\ SetFlow(f, [sdk[f] EXCEPT !.pc = "rejected",
                                 !.error = Err("Invalid API key")])

\* login resolves: init, wrapOpenAI, then the loop. The test starts the
\* traced callback of the first row and awaits it; the doc starts the
\* callbacks of all rows and awaits Promise.all.
SdkLoginOk(f) ==
    /\ sdk[f].pc = "await_login"
    /\ IF f = "test"
       THEN SetFlow(f, [sdk[f] EXCEPT
               !.pc = "rows", !.pending = {1},
               !.trace = @ \o <<Step("init", 0), Step("request", 1)>>])
       ELSE SetFlow(f, [sdk[f] EXCEPT
               !.pc = "rows", !.pending = 1..Len(sdkDataset),
               !.trace = @ \o <<Step("init", 0)>> \o
                         [k \in 1..Len(sdkDataset) |-> Step("request", k)]])

\* the completion of a pending row resolves: the rest of its traced callback
\* runs (output, score, span.log, return), then the code awaiting it
SdkCompletionOk(f) ==
    /\ sdk[f].pending # {}
    /\ \E k \in sdk[f].pending : \E c \in CompletionChoices(k) :
        LET x == sdk[f]
            row == sdkDataset[k]
            response == [model |-> "gpt-4o-mini", usage |-> "usage", content |-> c]
            output == IF f = "test" THEN OrEmpty(c) ELSE c.val
            sc == SdkScore(f, output, row.expected)
            ev == SdkEvent(f, row, output, sc, response)
            res == [input |-> row.input, output |-> output,
                    expected |-> row.expected, score |-> sc]
            rest == x.pending \ {k}
        IN
        IF f = "test"
        THEN IF k < Len(sdkDataset)
             THEN SetFlow(f, [x EXCEPT
                     !.pending = {k + 1},
                     !.logged = Append(@, ev),
                     !.results = Append(@, res),
                     !.trace = @ \o <<Step("log", k), Step("request", k + 1)>>])
             ELSE SetFlow(f, [x EXCEPT
                     !.pending = {},
                     !.logged = Append(@, ev),
                     !.results = Append(@, res),
                     !.trace = @ \o <<Step("log", k), Step("summarize", 0)>>,
                     !.pc = "await_summarize"])
        ELSE IF c.kind = "null"
             THEN \* output.includes on null: the callback throws a TypeError
                  SetFlow(f, [x EXCEPT
                     !.pending = rest,
                     !.trace = Append(@, Step("throw", k)),
                     !.pc = "rejected",
                     !.error = IF x.pc = "rows"
                               THEN Err("Cannot read properties of null")
                               ELSE @])
             ELSE IF x.pc = "rows" /\ AllSettled(rest)
                  THEN SetFlow(f, [x EXCEPT
                          !.pending = rest,
                          !.logged = Append(@, ev),
                          !.trace = @ \o <<Step("log", k), Step("summarize", 0)>>,
                          !.pc = "await_summarize"])
                  ELSE SetFlow(f, [x EXCEPT
                          !.pending = rest,
                          !.logged = Append(@, ev),
                          !.trace = Append(@, Step("log", k))])

\* the completion of a pending row rejects: its traced callback rejects; the
\* test's loop ends there, the doc's Promise.all rejects while the other
\* callbacks go on
SdkCompletionFail(f) ==
    /\ sdk[f].pending # {}
    /\ \E k \in sdk[f].pending :
        SetFlow(f, [sdk[f] EXCEPT
            !.pending = IF f = "test" THEN {} ELSE @ \ {k},
            !.trace = Append(@, Step("reject", k)),
            !.pc = "rejected",
            !.error = IF sdk[f].pc = "rows" THEN Err("401 Unauthorized") ELSE @])

\* experiment.summarize() resolves
SdkSummarizeOk(f) ==
    /\ sdk[f].pc = "await_summarize"
    /\ SetFlow(f, [sdk[f] EXCEPT !.pc = "resolved", !.summary = "summary"])

\* experiment.summarize() rejects
SdkSummarizeFail(f) ==
    /\ sdk[f].pc = "await_summarize"
    /\ SetFlow(f, [sdk[f] EXCEPT !.pc = "rejected",
                                 !.error = Err("Failed to summarize")])

\* the flows before they are called; the tracking service plays no part
InitSdk == Init /\ srvProjects = <<>>

NextSdk ==
    \E f \in Flows :
        \/ SdkStart(f)
        \/ SdkLoginFail(f)
        \/ SdkLoginOk(f)
        \/ SdkCompletionOk(f)
        \/ SdkCompletionFail(f)
        \/ SdkSummarizeOk(f)
        \/ SdkSummarizeFail(f)

SpecSdk == InitSdk /\ [][NextSdk]_vars

\* ------------------------------------------------------ reading a trace
StepPos(f, op, row) ==
    { p \in 1..Len(sdk[f].trace) : sdk[f].trace[p] = Step(op, row) }
Summarized(f) == StepPos(f, "summarize", 0) # {}

\* summarize comes after the span.log of every row
SummarizeAfterEveryLog(f) ==
    \A p \in StepPos(f, "summarize", 0) : \A k \in 1..Len(sdkDataset) :
        \E j \in StepPos(f, "log", k) : j < p

\* the completion of a row is requested after the log of the row before it
OneRowAtATime(f) ==
    \A k \in 2..Len(sdkDataset) : \A p \in StepPos(f, "request", k) :
        \E j \in StepPos(f, "log", k - 1) : j < p

====
